---- MODULE Spec2Model ----
(***************************************************************************)
(* A model of the regular-expression engine of rust/ch06_regex:            *)
(*   parser.rs    pattern text -> AST                                      *)
(*   codegen.rs   AST -> instruction sequence                              *)
(*   evaluator.rs instruction sequence + line -> EvalResult                *)
(*   engine.rs    EvalResult::merge, do_matching, match_line               *)
(* Addresses and string positions are 0-based as in the source; TLA+       *)
(* sequences are 1-based, so insts.get(a) is insts[a + 1].                 *)
(***************************************************************************)
EXTENDS Integers, Sequences, FiniteSets, TLC

VARIABLES
    ast,      \* the AST handed to codegen::get_code
    code,     \* the instruction sequence returned by get_code
    line,     \* the input line (a sequence of characters)
    phase,    \* which call is in progress: "depth", "width", "match_line", "done"
    dline,    \* eval_depth: the slice being evaluated
    dstack,   \* eval_depth: the active calls, innermost last
    dret,     \* eval_depth: the value being returned to the caller, or NoRet
    dstat,    \* eval_depth: "run", "ok", "err" or "abort"
    dres,     \* eval_depth: the EvalResult of the outermost call
    lastMerge,\* eval_depth: the operands and result of the latest merge
    wpc, wsp, whead, wctx, \* eval_width: pc, sp, shuould_be_head, ctx
    wstat,    \* eval_width: "run", "ok", "err" or "abort"
    wres,     \* eval_width: the returned EvalResult
    mli,      \* match_line: the offset i of the current iteration
    mlhist,   \* match_line: the EvalResult obtained at each offset so far
    mlstat,   \* match_line: "idle", "eval", "ok", "err" or "abort"
    mlres,    \* match_line: the returned boolean
    pexpr,    \* parse: the pattern, a sequence of characters
    ppos,     \* parse: index of the next character
    pseq, pseq_or, pstack, \* parse: seq, seq_or, stack
    pstate,   \* parse: state (ParseState)
    pstat,    \* parse: "run", "ok" or "err"
    pres,     \* parse: the returned AST or the error
    mx, my, mz, \* merge: three EvalResult operands
    sdst,     \* safe_add: the counter *dst
    ssrc,     \* safe_add: the increment *src of the latest call
    sres      \* safe_add: "none", "Ok" or "Err", the result of the latest call

evalVars  == <<ast, code, line, phase, dline, dstack, dret, dstat, dres,
               lastMerge, wpc, wsp, whead, wctx, wstat, wres,
               mli, mlhist, mlstat, mlres>>
parseVars == <<pexpr, ppos, pseq, pseq_or, pstack, pstate, pstat, pres>>
mergeVars == <<mx, my, mz>>
addVars   == <<sdst, ssrc, sres>>
vars      == <<evalVars, parseVars, mergeVars, addVars>>

(***************************************************************************)
(* Bounds of the model.                                                    *)
(***************************************************************************)
MaxSize  == 3   \* number of nodes of an enumerated AST
MaxLen   == 2   \* length of the input line
MaxDepth == 12  \* eval_depth calls the native stack holds
MaxCtx   == 12  \* continuations the heap holds for eval_width
MaxProg  == 2   \* number of instructions of a hand-written program
MaxProgLine == 1 \* number of characters of a line given to a hand-written program
MaxAddDst == 40 \* distance of a counter from 0 or from UsizeMax up to which it is incremented
MaxPat   == 3   \* length of an enumerated pattern

Alphabet == {"a", "b"}

\* usize::MAX; checked_add fails above it.  (The largest integer of the
\* model checker stands for 2^64 - 1.)
UsizeMax == 2147483647

(***************************************************************************)
(* parser.rs: enum AST, with the Period, Caret and Dollar variants that    *)
(* codegen.rs matches on.                                                  *)
(***************************************************************************)
Char(c)     == [t |-> "Char", c |-> c]
Period      == [t |-> "Period"]
Caret       == [t |-> "Caret"]
Dollar      == [t |-> "Dollar"]
Plus(e)     == [t |-> "Plus", e |-> e]
Star(e)     == [t |-> "Star", e |-> e]
Question(e) == [t |-> "Question", e |-> e]
Or(e1, e2)  == [t |-> "Or", l |-> e1, r |-> e2]
Seq1(v)     == [t |-> "Seq", v |-> v]

Atoms == {Char(c) : c \in Alphabet} \cup {Period, Caret, Dollar}

RECURSIVE ASTsOfSize(_), SeqsOfSize(_)
\* all ASTs with exactly n nodes
ASTsOfSize(n) ==
    IF n = 1 THEN Atoms
    ELSE {Plus(e) : e \in ASTsOfSize(n - 1)}
         \cup {Star(e) : e \in ASTsOfSize(n - 1)}
         \cup {Question(e) : e \in ASTsOfSize(n - 1)}
         \cup UNION {{Or(e1, e2) : e1 \in ASTsOfSize(i), e2 \in ASTsOfSize(n - 1 - i)}
                     : i \in 1..(n - 2)}
         \cup {Seq1(v) : v \in SeqsOfSize(n - 1)}
\* all non-empty sequences of ASTs with m nodes in total
SeqsOfSize(m) ==
    UNION {{<<e>> \o s : e \in ASTsOfSize(i),
                         s \in (IF i = m THEN {<<>>} ELSE SeqsOfSize(m - i))}
           : i \in 1..m}

\* the ASTs of the patterns used by the tests of engine.rs and codegen.rs
TestASTs ==
    { \* (a|^b)c
      Seq1(<<Or(Seq1(<<Char("a")>>), Seq1(<<Caret, Char("b")>>)), Char("b")>>),
      \* ^^ab
      Seq1(<<Caret, Caret, Char("a"), Char("b")>>),
      \* (^ab)?b
      Seq1(<<Question(Seq1(<<Caret, Char("a"), Char("b")>>)), Char("b")>>),
      \* ((((a*)*)*)*)
      Seq1(<<Star(Seq1(<<Star(Seq1(<<Star(Seq1(<<Star(Char("a"))>>))>>))>>))>>),
      \* a(b|a$)
      Seq1(<<Char("a"), Or(Seq1(<<Char("b")>>), Seq1(<<Char("a"), Dollar>>))>>),
      \* b|ab?*
      Or(Seq1(<<Char("b")>>), Seq1(<<Char("a"), Star(Question(Char("b")))>>)),
      \* ^(a|b)
      Seq1(<<Caret, Or(Seq1(<<Char("a")>>), Seq1(<<Char("b")>>))>>),
      \* ^a+
      Seq1(<<Caret, Plus(Char("a"))>>),
      \* (ab|ba)+
      Seq1(<<Plus(Or(Seq1(<<Char("a"), Char("b")>>), Seq1(<<Char("b"), Char("a")>>)))>>),
      \* a(ba|b+)*
      Seq1(<<Char("a"),
             Star(Or(Seq1(<<Char("b"), Char("a")>>), Seq1(<<Plus(Char("b"))>>)))>>),
      \* a**b
      Seq1(<<Star(Star(Char("a"))), Char("b")>>),
      \* (a*)*b
      Seq1(<<Star(Seq1(<<Star(Char("a"))>>)), Char("b")>>),
      \* the starred group of ((((a*)*)*)*)
      Star(Seq1(<<Star(Seq1(<<Star(Char("a"))>>))>>)),
      \* a|b|ab
      Or(Seq1(<<Char("a")>>), Or(Seq1(<<Char("b")>>), Seq1(<<Char("a"), Char("b")>>))),
      \* a^a
      Seq1(<<Char("a"), Caret, Char("a")>>),
      \* x(a|^b), with b for x
      Seq1(<<Char("b"), Or(Seq1(<<Char("a")>>), Seq1(<<Caret, Char("b")>>))>>) }

ASTs == (UNION {ASTsOfSize(n) : n \in 1..MaxSize}) \cup TestASTs

\* lines longer than MaxLen, where a match starts after offset 0 as in the
\* lines "123def" and "123abc" of test_match_line
TestLines == {<<"b", "a", "b">>, <<"a", "b", "b">>}

Lines == (UNION {[1..n -> Alphabet] : n \in 0..MaxLen}) \cup TestLines

(***************************************************************************)
(* engine.rs: enum Instruction (with the AnyChar and MatchEnd variants     *)
(* that codegen.rs emits and evaluator.rs executes).                       *)
(***************************************************************************)
IChar(c)     == [op |-> "Char", c |-> c]
IAnyChar     == [op |-> "AnyChar"]
IHead        == [op |-> "Head"]
IMatchEnd    == [op |-> "MatchEnd"]
IMatch       == [op |-> "Match"]
IJump(a)     == [op |-> "Jump", addr |-> a]
ISplit(a, b) == [op |-> "Split", addr1 |-> a, addr2 |-> b]

(***************************************************************************)
(* helper.rs: safe_add                                                     *)
(***************************************************************************)
\* an addition that wraps around the machine word and reports Ok
SafeAdd_Wrapping(dst, src) ==
    IF dst > UsizeMax - src
    THEN [ok |-> TRUE, v |-> dst - (UsizeMax - src) - 1]
    ELSE [ok |-> TRUE, v |-> dst + src]

SafeAdd(dst, src) ==
    IF dst > UsizeMax - src
    THEN [ok |-> FALSE, v |-> dst]
    ELSE [ok |-> TRUE, v |-> dst + src]

(***************************************************************************)
(* codegen.rs: struct Generator { pc, insts }; err carries the             *)
(* CodeGenError that `?` propagates ("none" while Ok).                     *)
(***************************************************************************)
Generator == [pc |-> 0, insts |-> <<>>, err |-> "none"]

inc_pc(g) ==
    IF g.err # "none" THEN g
    ELSE LET r == SafeAdd(g.pc, 1)
         IN  IF r.ok THEN [g EXCEPT !.pc = r.v]
             ELSE [g EXCEPT !.err = "PCOverFlow"]

\* self.insts.push(inst)
push(g, inst) ==
    IF g.err # "none" THEN g ELSE [g EXCEPT !.insts = Append(@, inst)]

\* self.insts.get_mut(addr)
HasInst(g, addr, op) ==
    addr + 1 \in DOMAIN g.insts /\ g.insts[addr + 1].op = op

\* gen_char that pushes without incrementing pc
gen_char_NoInc(g, c) == push(g, IChar(c))

gen_char(g, c) == inc_pc(push(g, IChar(c)))
gen_caret(g)   == inc_pc(push(g, IHead))
gen_dollar(g)  == inc_pc(push(g, IMatchEnd))
gen_period(g)  == inc_pc(push(g, IAnyChar))

RECURSIVE gen_expr(_, _), gen_seq(_, _)

\* gen_or that points the second operand of its Split at its Jump
gen_or_SplitToJump(g, e1, e2) ==
    LET split_addr == g.pc
        g1 == inc_pc(g)
        g2 == push(g1, ISplit(g1.pc, 0))
        g3 == gen_expr(g2, e1)
        jmp_addr == g3.pc
        g4 == inc_pc(push(g3, IJump(0)))
        g5 == IF g4.err # "none" THEN g4
              ELSE IF HasInst(g4, split_addr, "Split")
                   THEN [g4 EXCEPT !.insts[split_addr + 1].addr2 = jmp_addr]
                   ELSE [g4 EXCEPT !.err = "FailOr"]
        g6 == gen_expr(g5, e2)
    IN  IF g6.err # "none" THEN g6
        ELSE IF HasInst(g6, jmp_addr, "Jump")
             THEN [g6 EXCEPT !.insts[jmp_addr + 1].addr = g6.pc]
             ELSE [g6 EXCEPT !.err = "FailOr"]

\* gen_or that reads split_addr after inc_pc
gen_or_AddrAfterInc(g, e1, e2) ==
    LET g1 == inc_pc(g)
        split_addr == g1.pc
        g2 == push(g1, ISplit(g1.pc, 0))
        g3 == gen_expr(g2, e1)
        jmp_addr == g3.pc
        g4 == inc_pc(push(g3, IJump(0)))
        g5 == IF g4.err # "none" THEN g4
              ELSE IF HasInst(g4, split_addr, "Split")
                   THEN [g4 EXCEPT !.insts[split_addr + 1].addr2 = g4.pc]
                   ELSE [g4 EXCEPT !.err = "FailOr"]
        g6 == gen_expr(g5, e2)
    IN  IF g6.err # "none" THEN g6
        ELSE IF HasInst(g6, jmp_addr, "Jump")
             THEN [g6 EXCEPT !.insts[jmp_addr + 1].addr = g6.pc]
             ELSE [g6 EXCEPT !.err = "FailOr"]

gen_or(g, e1, e2) ==
    LET split_addr == g.pc
        g1 == inc_pc(g)
        g2 == push(g1, ISplit(g1.pc, 0))
        g3 == gen_expr(g2, e1)
        jmp_addr == g3.pc
        g4 == inc_pc(push(g3, IJump(0)))
        g5 == IF g4.err # "none" THEN g4
              ELSE IF HasInst(g4, split_addr, "Split")
                   THEN [g4 EXCEPT !.insts[split_addr + 1].addr2 = g4.pc]
                   ELSE [g4 EXCEPT !.err = "FailOr"]
        g6 == gen_expr(g5, e2)
    IN  IF g6.err # "none" THEN g6
        ELSE IF HasInst(g6, jmp_addr, "Jump")
             THEN [g6 EXCEPT !.insts[jmp_addr + 1].addr = g6.pc]
             ELSE [g6 EXCEPT !.err = "FailOr"]

\* gen_plus with the exit address taken one past the next instruction
gen_plus_OffByOne(g, e) ==
    LET l1 == g.pc
        g1 == inc_pc(gen_expr(g, e))
    IN  push(g1, ISplit(l1, g1.pc + 1))

gen_plus(g, e) ==
    LET l1 == g.pc
        g1 == inc_pc(gen_expr(g, e))
    IN  push(g1, ISplit(l1, g1.pc))

\* gen_star that leaves the placeholder operand of its Split
gen_star_NoPatch(g, e) ==
    LET l1 == g.pc
        g1 == inc_pc(g)
        g2 == push(g1, ISplit(g1.pc, 0))
        g3 == inc_pc(gen_expr(g2, e))
    IN  push(g3, IJump(l1))

gen_star(g, e) ==
    LET l1 == g.pc
        g1 == inc_pc(g)
        g2 == push(g1, ISplit(g1.pc, 0))
        g3 == inc_pc(gen_expr(g2, e))
        g4 == push(g3, IJump(l1))
    IN  IF g4.err # "none" THEN g4
        ELSE IF HasInst(g4, l1, "Split")
             THEN [g4 EXCEPT !.insts[l1 + 1].addr2 = g4.pc]
             ELSE [g4 EXCEPT !.err = "FailStar"]

\* gen_question that ends with a Jump over nothing, as an alternation would
gen_question_WithJump(g, e) ==
    LET split_addr == g.pc
        g1 == inc_pc(g)
        g2 == push(g1, ISplit(g1.pc, 0))
        g3 == inc_pc(gen_expr(g2, e))
        g4 == push(g3, IJump(g3.pc))
    IN  IF g4.err # "none" THEN g4
        ELSE IF HasInst(g4, split_addr, "Split")
             THEN [g4 EXCEPT !.insts[split_addr + 1].addr2 = g4.pc]
             ELSE [g4 EXCEPT !.err = "FailQuestion"]

gen_question(g, e) ==
    LET split_addr == g.pc
        g1 == inc_pc(g)
        g2 == push(g1, ISplit(g1.pc, 0))
        g3 == gen_expr(g2, e)
    IN  IF g3.err # "none" THEN g3
        ELSE IF HasInst(g3, split_addr, "Split")
             THEN [g3 EXCEPT !.insts[split_addr + 1].addr2 = g3.pc]
             ELSE [g3 EXCEPT !.err = "FailQuestion"]

gen_seq(g, exprs) ==
    IF exprs = <<>> \/ g.err # "none" THEN g
    ELSE gen_seq(gen_expr(g, Head(exprs)), Tail(exprs))

\* gen_expr that collapses Star(Star(x)) but not Star(Seq[Star(x)])
gen_expr_NoSeqCollapse(g, a) ==
    IF g.err # "none" THEN g
    ELSE CASE a.t = "Char"     -> gen_char(g, a.c)
           [] a.t = "Period"   -> gen_period(g)
           [] a.t = "Caret"    -> gen_caret(g)
           [] a.t = "Dollar"   -> gen_dollar(g)
           [] a.t = "Or"       -> gen_or(g, a.l, a.r)
           [] a.t = "Plus"     -> gen_plus(g, a.e)
           [] a.t = "Star"     ->
                IF a.e.t = "Star" THEN gen_expr(g, a.e) ELSE gen_star(g, a.e)
           [] a.t = "Question" -> gen_question(g, a.e)
           [] a.t = "Seq"      -> gen_seq(g, a.v)

gen_expr(g, a) ==
    IF g.err # "none" THEN g
    ELSE CASE a.t = "Char"     -> gen_char(g, a.c)
           [] a.t = "Period"   -> gen_period(g)
           [] a.t = "Caret"    -> gen_caret(g)
           [] a.t = "Dollar"   -> gen_dollar(g)
           [] a.t = "Or"       -> gen_or(g, a.l, a.r)
           [] a.t = "Plus"     -> gen_plus(g, a.e)
           [] a.t = "Star"     ->
                IF a.e.t = "Star" THEN gen_expr(g, a.e)
                ELSE IF a.e.t = "Seq" /\ Len(a.e.v) = 1
                     THEN IF a.e.v[1].t = "Star"
                          THEN gen_expr(g, a.e.v[1])
                          ELSE gen_star(g, a.e)
                     ELSE gen_star(g, a.e)
           [] a.t = "Question" -> gen_question(g, a.e)
           [] a.t = "Seq"      -> gen_seq(g, a.v)

\* gen_code that does not end the program with Match
gen_code_NoMatch(g, a) == inc_pc(gen_expr(g, a))

gen_code(g, a) == push(inc_pc(gen_expr(g, a)), IMatch)

\* Ok(generator.insts), or the CodeGenError
get_code(a) ==
    LET g == gen_code(Generator, a)
    IN  [err |-> g.err, insts |-> IF g.err = "none" THEN g.insts ELSE <<>>]

(***************************************************************************)
(* engine.rs: struct EvalResult                                            *)
(***************************************************************************)
EvalResult(m, h) == [matched |-> m, should_be_head |-> h]
matched          == EvalResult(TRUE, FALSE)
unmatched        == EvalResult(FALSE, FALSE)
matched_if_head  == EvalResult(TRUE, TRUE)

\* merge that keeps the flag of self when both operands are matched
merge_SelfHead(self, other) ==
    IF self.matched
    THEN EvalResult(TRUE, self.should_be_head)
    ELSE EvalResult(other.matched, other.should_be_head)

merge(self, other) ==
    IF self.matched
    THEN IF other.matched
         THEN EvalResult(TRUE, self.should_be_head /\ other.should_be_head)
         ELSE EvalResult(TRUE, self.should_be_head)
    ELSE EvalResult(other.matched, other.should_be_head)

(***************************************************************************)
(* evaluator.rs: eval_depth.  The native call stack is the sequence of     *)
(* frames dstack; a frame is one activation of eval_depth with its locals  *)
(* pc, sp, should_be_head.  st tells where the activation stands: "run"    *)
(* in the loop, "call1" waiting for eval_depth(addr1), "call2" waiting for *)
(* eval_depth(addr2) with the first result kept in left.                   *)
(***************************************************************************)
NoRet == [none |-> TRUE]
NoMerge == [none |-> TRUE]

Frame(pc, sp) ==
    [pc |-> pc, sp |-> sp, should_be_head |-> FALSE, st |-> "run", left |-> NoRet]

\* slice.get(i) is Some
Has(s, i) == i + 1 \in DOMAIN s

\* the outcome of one step: the new stack, the value in flight, the status
\* of the outermost call and its result
DOut(stack, ret, stat, res, mrg) ==
    [stack |-> stack, ret |-> ret, stat |-> stat, res |-> res, mrg |-> mrg]

\* `return Ok(r)` of the innermost activation
DReturn(stack, r, mrg) ==
    LET rest == SubSeq(stack, 1, Len(stack) - 1)
    IN  IF rest = <<>> THEN DOut(<<>>, NoRet, "ok", r, mrg)
        ELSE DOut(rest, r, "run", NoRet, mrg)

\* a recursive call eval_depth(inst, line, pc, sp); the stack is finite
DCall(stack, pc, sp) ==
    IF Len(stack) >= MaxDepth THEN DOut(stack, NoRet, "abort", NoRet, NoMerge)
    ELSE DOut(Append(stack, Frame(pc, sp)), NoRet, "run", NoRet, NoMerge)

DErr(e) == DOut(<<>>, NoRet, "err", e, NoMerge)

\* pc += 1 (and sp += n) in the innermost activation
DAdvance(stack, f, dsp, head) ==
    LET p == SafeAdd(f.pc, 1)
        s == SafeAdd(f.sp, dsp)
    IN  IF ~p.ok THEN DErr("PCOverFlow")
        ELSE IF ~s.ok THEN DErr("SPOverFlow")
        ELSE DOut([stack EXCEPT ![Len(stack)] =
                       [f EXCEPT !.pc = p.v, !.sp = s.v, !.should_be_head = head]],
                  NoRet, "run", NoRet, NoMerge)

\* the Head arm
DHead(stack, f) ==
    IF f.sp # 0
    THEN DReturn(stack, unmatched, NoMerge)
    ELSE DAdvance(stack, f, 0, TRUE)

\* the MatchEnd arm: is_end is line.get(sp).is_none()
DMatchEnd(ln, stack, f) ==
    IF Has(ln, f.sp)
    THEN DReturn(stack, unmatched, NoMerge)
    ELSE DReturn(stack, IF f.should_be_head THEN matched_if_head ELSE matched,
                 NoMerge)

\* one iteration of the loop of the innermost activation
DInstr(inst, ln, stack) ==
    LET n == Len(stack)
        f == stack[n]
    IN  IF ~Has(inst, f.pc) THEN DErr("InvalidPC")
        ELSE LET next == inst[f.pc + 1] IN
          CASE next.op = "Char" ->
                 IF Has(ln, f.sp) /\ ln[f.sp + 1] = next.c
                 THEN DAdvance(stack, f, 1, f.should_be_head)
                 ELSE DReturn(stack, unmatched, NoMerge)
            [] next.op = "AnyChar" ->
                 IF Has(ln, f.sp)
                 THEN DAdvance(stack, f, 1, f.should_be_head)
                 ELSE DReturn(stack, unmatched, NoMerge)
            [] next.op = "Head" -> DHead(stack, f)
            [] next.op = "Match" ->
                 DReturn(stack, IF f.should_be_head THEN matched_if_head ELSE matched,
                         NoMerge)
            [] next.op = "MatchEnd" -> DMatchEnd(ln, stack, f)
            [] next.op = "Jump" ->
                 DOut([stack EXCEPT ![n].pc = next.addr], NoRet, "run", NoRet, NoMerge)
            [] next.op = "Split" ->
                 DCall([stack EXCEPT ![n].st = "call1"], next.addr1, f.sp)

\* the callee returned r to the innermost remaining activation, which sits
\* in  eval_depth(addr1)?.merge(&eval_depth(addr2)?)
DResume(inst, stack, r) ==
    LET n == Len(stack)
        f == stack[n]
    IN  IF f.st = "call1"
        THEN DCall([stack EXCEPT ![n].st = "call2", ![n].left = r],
                   inst[f.pc + 1].addr2, f.sp)
        ELSE LET m == merge(f.left, r)
             IN  DReturn(stack, m, [self |-> f.left, other |-> r, result |-> m])

eval_depth_step(inst, ln, stack, ret) ==
    IF ret # NoRet THEN DResume(inst, stack, ret) ELSE DInstr(inst, ln, stack)

(***************************************************************************)
(* evaluator.rs: pop_ctx and eval_width.  A state of the loop is the       *)
(* record [pc, sp, head, ctx, stat, res].                                  *)
(***************************************************************************)
Ctx(pc, sp, head) == [pc |-> pc, sp |-> sp, should_be_head |-> head]

WOut(pc, sp, head, ctx, stat, res) ==
    [pc |-> pc, sp |-> sp, head |-> head, ctx |-> ctx, stat |-> stat, res |-> res]

WErr(w, e) == WOut(w.pc, w.sp, w.head, w.ctx, "err", e)
WRet(w, r) == WOut(w.pc, w.sp, w.head, w.ctx, "ok", r)

\* pop_ctx that takes the oldest continuation (pop_front)
pop_ctx_Oldest(w) ==
    IF w.ctx # <<>>
    THEN LET c == w.ctx[1]
         IN  WOut(c.pc, c.sp, c.should_be_head, Tail(w.ctx), "run", NoRet)
    ELSE WErr(w, "InvalidContext")

pop_ctx(w) ==
    IF w.ctx # <<>>
    THEN LET c == w.ctx[Len(w.ctx)]
         IN  WOut(c.pc, c.sp, c.should_be_head,
                  SubSeq(w.ctx, 1, Len(w.ctx) - 1), "run", NoRet)
    ELSE WErr(w, "InvalidContext")

\* a failing thread that ends the evaluation without backtracking
WFail_NoBacktrack(w) == WRet(w, unmatched)

\* a failing thread that pops without testing ctx.is_empty()
WFail_AlwaysPop(w) == pop_ctx(w)

\* the thread failed: unmatched when ctx is empty, else resume the latest
WFail(w) == IF w.ctx = <<>> THEN WRet(w, unmatched) ELSE pop_ctx(w)

\* the end of the loop body, reached by every arm that neither returns nor
\* continues: push the current thread and pop it again
WTail(w) ==
    IF w.stat # "run" THEN w
    ELSE IF w.ctx # <<>>
         THEN pop_ctx([w EXCEPT !.ctx = Append(@, Ctx(w.pc, w.sp, w.head))])
         ELSE w

WAdvance(w, dsp, head) ==
    LET p == SafeAdd(w.pc, 1)
        s == SafeAdd(w.sp, dsp)
    IN  IF ~p.ok THEN WErr(w, "PCOverFlow")
        ELSE IF ~s.ok THEN WErr(w, "SPOverFlow")
        ELSE [w EXCEPT !.pc = p.v, !.sp = s.v, !.head = head]

\* a Head arm that does not test sp
WHead_AnySp(w) == WTail(WAdvance(w, 0, TRUE))

\* the Head arm
WHead(w) == WTail(IF w.sp # 0 THEN WFail(w) ELSE WAdvance(w, 0, TRUE))

\* a MatchEnd arm that, at the end of the line, goes on to the next
\* instruction instead of returning
WMatchEnd_FallThrough(ln, w) ==
    WTail(IF Has(ln, w.sp) THEN WFail(w) ELSE WAdvance(w, 0, w.head))

\* the MatchEnd arm: is_end is line.get(sp).is_none()
WMatchEnd(ln, w) ==
    IF Has(ln, w.sp) THEN WTail(WFail(w))
    ELSE WRet(w, IF w.head THEN matched_if_head ELSE matched)

eval_width_step(inst, ln, w) ==
    IF ~Has(inst, w.pc) THEN WErr(w, "InvalidPC")
    ELSE LET next == inst[w.pc + 1] IN
      CASE next.op = "Char" ->
             WTail(IF Has(ln, w.sp) /\ ln[w.sp + 1] = next.c
                   THEN WAdvance(w, 1, w.head) ELSE WFail(w))
        [] next.op = "AnyChar" ->
             WTail(IF Has(ln, w.sp) THEN WAdvance(w, 1, w.head) ELSE WFail(w))
        [] next.op = "Head" -> WHead(w)
        [] next.op = "Match" ->
             WRet(w, IF w.head THEN matched_if_head ELSE matched)
        [] next.op = "MatchEnd" -> WMatchEnd(ln, w)
        [] next.op = "Jump" ->
             WTail([w EXCEPT !.pc = next.addr])
        [] next.op = "Split" ->
             IF Len(w.ctx) >= MaxCtx
             THEN WOut(w.pc, w.sp, w.head, w.ctx, "abort", NoRet)
             ELSE [w EXCEPT !.pc = next.addr1,
                            !.ctx = Append(@, Ctx(next.addr2, w.sp, w.head))]

(***************************************************************************)
(* parser.rs: fold_or, parse_plus_question, parse                          *)
(***************************************************************************)
None == [none |-> TRUE]

RECURSIVE FoldLeft(_, _)
\* for s in seq_or { ast = Or(s, ast) }
FoldLeft(branches, a) ==
    IF branches = <<>> THEN a
    ELSE FoldLeft(Tail(branches), Or(Head(branches), a))

Reverse(s) == [i \in 1..Len(s) |-> s[Len(s) + 1 - i]]

\* fold_or that yields nothing for a single branch
fold_or_OnlyFolds(seq_or) ==
    IF Len(seq_or) > 1
    THEN FoldLeft(Reverse(SubSeq(seq_or, 1, Len(seq_or) - 1)), seq_or[Len(seq_or)])
    ELSE None

fold_or(seq_or) ==
    IF Len(seq_or) > 1
    THEN FoldLeft(Reverse(SubSeq(seq_or, 1, Len(seq_or) - 1)), seq_or[Len(seq_or)])
    ELSE IF seq_or = <<>> THEN None ELSE seq_or[1]

\* Ok(new seq) or Err(NoPrev(pos))
parse_plus_question(seq, ast_type, pos) ==
    IF seq # <<>>
    THEN LET prev == seq[Len(seq)]
             a == CASE ast_type = "Plus" -> Plus(prev)
                    [] ast_type = "Star" -> Star(prev)
                    [] ast_type = "Question" -> Question(prev)
         IN  [ok |-> TRUE, seq |-> [seq EXCEPT ![Len(seq)] = a]]
    ELSE [ok |-> FALSE, err |-> <<"NoPrev", pos>>]

\* Ok(AST::Char(c)) or Err(InvalidEscape(pos, c)); parse never calls it
parse_escape(pos, c) ==
    IF c \in {"\\", "(", ")", "|", "+", "*", "?"}
    THEN [ok |-> TRUE, ast |-> Char(c)]
    ELSE [ok |-> FALSE, err |-> <<"InvalidEscape", pos, c>>]

PatChars == {"a", "b", "+", "*", "?", "|", "(", ")", "\\"}

\* the patterns of test_do_matching and test_get_code
TestPatterns ==
    { <<"a", "b", "|", "b", "a">>,
      <<"(", "a", "b", ")", "*">>,
      <<"(", "a", "|", "b", ")", "+">>,
      <<"(", "a", "*", ")", "*", "b">>,
      <<"a", "(", "b", "a", "|", "b", "+", ")", "*">>,
      \* three branches
      <<"a", "|", "b", "|", "a", "b">> }

Patterns == (UNION {[1..n -> PatChars] : n \in 0..MaxPat}) \cup TestPatterns

(***************************************************************************)
(* Initial states                                                          *)
(***************************************************************************)
NoAST == [t |-> "none"]

EvalIdle ==
    /\ dline = <<>> /\ dstack = <<>> /\ dret = NoRet /\ dstat = "idle"
    /\ dres = NoRet /\ lastMerge = NoMerge
    /\ wpc = 0 /\ wsp = 0 /\ whead = FALSE /\ wctx = <<>>
    /\ wstat = "idle" /\ wres = NoRet
    /\ mli = 0 /\ mlhist = <<>> /\ mlstat = "idle" /\ mlres = FALSE

ParseIdle ==
    /\ pexpr = <<>> /\ ppos = 1 /\ pseq = <<>> /\ pseq_or = <<>>
    /\ pstack = <<>> /\ pstate = "Char" /\ pstat = "idle" /\ pres = None

MergeIdle == mx = unmatched /\ my = unmatched /\ mz = unmatched

AddIdle == sdst = 0 /\ ssrc = 0 /\ sres = "none"

\* eval(&code, &line, true), eval(&code, &line, false) and the loop of
\* match_line, one after the other, on the code of an AST
Init ==
    /\ ast \in ASTs
    /\ line \in Lines
    /\ code = get_code(ast)
    /\ phase = "depth"
    /\ dline = line /\ dstack = <<Frame(0, 0)>> /\ dret = NoRet /\ dstat = "run"
    /\ dres = NoRet /\ lastMerge = NoMerge
    /\ wpc = 0 /\ wsp = 0 /\ whead = FALSE /\ wctx = <<>>
    /\ wstat = "run" /\ wres = NoRet
    /\ mli = 0 /\ mlhist = <<>> /\ mlstat = "idle" /\ mlres = FALSE
    /\ ParseIdle
    /\ MergeIdle
    /\ AddIdle

\* do_matching(expr, line, true)
InitParse ==
    /\ pexpr \in Patterns
    /\ line \in Lines
    /\ ppos = 1 /\ pseq = <<>> /\ pseq_or = <<>> /\ pstack = <<>>
    /\ pstate = "Char" /\ pstat = "run" /\ pres = None
    /\ ast = NoAST /\ code = [err |-> "none", insts |-> <<>>]
    /\ phase = "parse"
    /\ EvalIdle
    /\ MergeIdle
    /\ AddIdle

(***************************************************************************)
(* evaluator.rs: eval(inst, line, true), one step of eval_depth            *)
(***************************************************************************)
EvalDepthTo(nextPhase) ==
    /\ dstat = "run"
    /\ LET o == eval_depth_step(code.insts, dline, dstack, dret)
       IN  /\ dstack' = o.stack
           /\ dret' = o.ret
           /\ dstat' = o.stat
           /\ dres' = o.res
           /\ lastMerge' = IF o.mrg = NoMerge THEN lastMerge ELSE o.mrg
           /\ phase' = IF o.stat = "run" THEN phase ELSE nextPhase
    /\ UNCHANGED <<ast, code, line, dline>>

EvalDepth ==
    /\ phase = "depth"
    /\ EvalDepthTo("width")
    /\ UNCHANGED <<wpc, wsp, whead, wctx, wstat, wres, mli, mlhist, mlstat, mlres>>
    /\ UNCHANGED <<parseVars, mergeVars, addVars>>

(***************************************************************************)
(* evaluator.rs: eval(inst, line, false), one iteration of eval_width      *)
(***************************************************************************)
EvalWidth ==
    /\ phase = "width"
    /\ wstat = "run"
    /\ LET w == eval_width_step(code.insts, line,
                                WOut(wpc, wsp, whead, wctx, "run", NoRet))
       IN  /\ wpc' = w.pc /\ wsp' = w.sp /\ whead' = w.head /\ wctx' = w.ctx
           /\ wstat' = w.stat /\ wres' = w.res
           /\ phase' = IF w.stat = "run" THEN phase ELSE "match_line"
    /\ UNCHANGED <<ast, code, line, dline, dstack, dret, dstat, dres, lastMerge,
                   mli, mlhist, mlstat, mlres>>
    /\ UNCHANGED <<parseVars, mergeVars, addVars>>

(***************************************************************************)
(* engine.rs: match_line.  MatchLineIter is the head of the for loop over  *)
(* line.char_indices(); MatchLineEval is the call of eval on the partial   *)
(* line and the test of its result.                                        *)
(***************************************************************************)
\* the loop of match_line going on to the offset equal to the line length
MatchLineIter_Inclusive ==
    /\ phase = "match_line"
    /\ mlstat = "idle"
    /\ IF mli <= Len(line)
       THEN /\ dline' = SubSeq(line, mli + 1, Len(line))
            /\ dstack' = <<Frame(0, 0)>>
            /\ dret' = NoRet
            /\ mlstat' = "eval"
            /\ UNCHANGED <<mlres, phase>>
       ELSE /\ mlstat' = "ok"
            /\ mlres' = FALSE
            /\ phase' = "done"
            /\ UNCHANGED <<dline, dstack, dret>>
    /\ UNCHANGED <<ast, code, line, dstat, dres, lastMerge,
                   wpc, wsp, whead, wctx, wstat, wres, mli, mlhist>>
    /\ UNCHANGED <<parseVars, mergeVars, addVars>>

MatchLineIter ==
    /\ phase = "match_line"
    /\ mlstat = "idle"
    /\ IF mli < Len(line)
       THEN /\ dline' = SubSeq(line, mli + 1, Len(line))
            /\ dstack' = <<Frame(0, 0)>>
            /\ dret' = NoRet
            /\ mlstat' = "eval"
            /\ UNCHANGED <<mlres, phase>>
       ELSE /\ mlstat' = "ok"
            /\ mlres' = FALSE
            /\ phase' = "done"
            /\ UNCHANGED <<dline, dstack, dret>>
    /\ UNCHANGED <<ast, code, line, dstat, dres, lastMerge,
                   wpc, wsp, whead, wctx, wstat, wres, mli, mlhist>>
    /\ UNCHANGED <<parseVars, mergeVars, addVars>>

MatchLineEval ==
    /\ phase = "match_line"
    /\ mlstat = "eval"
    /\ LET o == eval_depth_step(code.insts, dline, dstack, dret)
       IN  /\ dstack' = o.stack
           /\ dret' = o.ret
           /\ lastMerge' = IF o.mrg = NoMerge THEN lastMerge ELSE o.mrg
           /\ CASE o.stat = "run" ->
                     UNCHANGED <<mli, mlhist, mlstat, mlres, phase>>
                [] o.stat = "ok" ->
                     /\ mlhist' = Append(mlhist, o.res)
                     /\ IF o.res.matched /\ (~o.res.should_be_head \/ mli = 0)
                        THEN /\ mlstat' = "ok" /\ mlres' = TRUE /\ phase' = "done"
                             /\ UNCHANGED mli
                        ELSE /\ mli' = mli + 1 /\ mlstat' = "idle"
                             /\ UNCHANGED <<mlres, phase>>
                [] OTHER ->
                     /\ mlstat' = o.stat /\ phase' = "done"
                     /\ UNCHANGED <<mli, mlhist, mlres>>
    /\ UNCHANGED <<ast, code, line, dline, dstat, dres,
                   wpc, wsp, whead, wctx, wstat, wres>>
    /\ UNCHANGED <<parseVars, mergeVars, addVars>>

Next == EvalDepth \/ EvalWidth \/ MatchLineIter \/ MatchLineEval

Spec == Init /\ [][Next]_vars

(***************************************************************************)
(* parser.rs: parse, one iteration of the loop over expr.chars()           *)
(***************************************************************************)
ParseChar ==
    /\ phase = "parse"
    /\ pstat = "run"
    /\ ppos <= Len(pexpr)
    /\ LET c == pexpr[ppos]
           i == ppos - 1
           quant == CASE c = "+" -> "Plus" [] c = "*" -> "Star" [] OTHER -> "Question"
       IN  IF pstate = "Char"
           THEN CASE c \in {"+", "*", "?"} ->
                       LET r == parse_plus_question(pseq, quant, i)
                       IN  IF r.ok
                           THEN /\ pseq' = r.seq
                                /\ UNCHANGED <<pseq_or, pstack, pstat, pres>>
                           ELSE /\ pstat' = "err" /\ pres' = r.err
                                /\ UNCHANGED <<pseq, pseq_or, pstack>>
                  [] c = "(" ->
                       /\ pstack' = Append(pstack, <<pseq, pseq_or>>)
                       /\ pseq' = <<>> /\ pseq_or' = <<>>
                       /\ UNCHANGED <<pstat, pres>>
                  [] c = ")" ->
                       IF pstack # <<>>
                       THEN LET top == pstack[Len(pstack)]
                                so == IF pseq # <<>>
                                      THEN Append(pseq_or, Seq1(pseq)) ELSE pseq_or
                                f == fold_or(so)
                            IN  /\ pstack' = SubSeq(pstack, 1, Len(pstack) - 1)
                                /\ pseq' = IF f # None THEN Append(top[1], f) ELSE top[1]
                                /\ pseq_or' = top[2]
                                /\ UNCHANGED <<pstat, pres>>
                       ELSE /\ pstat' = "err" /\ pres' = <<"InvalidRightParen", i>>
                            /\ UNCHANGED <<pseq, pseq_or, pstack>>
                  [] c = "|" -> UNCHANGED <<pseq, pseq_or, pstack, pstat, pres>>
                  [] c = "\\" -> UNCHANGED <<pseq, pseq_or, pstack, pstat, pres>>
                  [] OTHER ->
                       /\ pseq' = Append(pseq, Char(c))
                       /\ UNCHANGED <<pseq_or, pstack, pstat, pres>>
           ELSE UNCHANGED <<pseq, pseq_or, pstack, pstat, pres>>
    /\ ppos' = ppos + 1
    /\ UNCHANGED <<pexpr, pstate>>
    /\ UNCHANGED <<evalVars, mergeVars, addVars>>

(***************************************************************************)
(* parser.rs: parse after the loop; on Ok do_matching goes on with         *)
(* get_code and eval                                                       *)
(***************************************************************************)
ParseEnd ==
    /\ phase = "parse"
    /\ pstat = "run"
    /\ ppos > Len(pexpr)
    /\ LET so == IF pseq # <<>> THEN Append(pseq_or, Seq1(pseq)) ELSE pseq_or
           f == fold_or(so)
       IN  IF pstack # <<>>
           THEN /\ pstat' = "err" /\ pres' = <<"NoRightParen">>
                /\ phase' = "done"
                /\ UNCHANGED <<pseq, pseq_or, ast, code, dline, dstack, dstat>>
           ELSE IF f # None
           THEN /\ pstat' = "ok" /\ pres' = f
                /\ pseq' = <<>> /\ pseq_or' = so
                /\ ast' = f
                /\ code' = get_code(f)
                /\ phase' = "do_matching"
                /\ dline' = line /\ dstack' = <<Frame(0, 0)>> /\ dstat' = "run"
           ELSE /\ pstat' = "err" /\ pres' = <<"Empty">>
                /\ phase' = "done"
                /\ UNCHANGED <<pseq, pseq_or, ast, code, dline, dstack, dstat>>
    /\ UNCHANGED <<pexpr, ppos, pstack, pstate, line, dret, dres, lastMerge,
                   wpc, wsp, whead, wctx, wstat, wres, mli, mlhist, mlstat, mlres>>
    /\ UNCHANGED <<mergeVars, addVars>>

\* engine.rs: do_matching, the call evaluator::eval(&code, &line, is_depth)
DoMatching ==
    /\ phase = "do_matching"
    /\ EvalDepthTo("done")
    /\ UNCHANGED <<wpc, wsp, whead, wctx, wstat, wres, mli, mlhist, mlstat, mlres>>
    /\ UNCHANGED <<parseVars, mergeVars, addVars>>

NextParse == ParseChar \/ ParseEnd \/ DoMatching

ParseSpec == InitParse /\ [][NextParse]_vars

(***************************************************************************)
(* engine.rs: EvalResult::merge applied to operands drawn from the three   *)
(* values the constructors build, and to results of earlier merges         *)
(***************************************************************************)
Results == {unmatched, matched, matched_if_head}

InitMerge ==
    /\ mx \in Results /\ my \in Results /\ mz \in Results
    /\ ast = NoAST /\ line = <<>> /\ code = [err |-> "none", insts |-> <<>>]
    /\ phase = "merge"
    /\ EvalIdle
    /\ ParseIdle
    /\ AddIdle

Merge ==
    /\ phase = "merge"
    /\ \E x, y \in {mx, my, mz}
                    \cup (IF lastMerge = NoMerge THEN {} ELSE {lastMerge.result}) :
          lastMerge' = [self |-> x, other |-> y, result |-> merge(x, y)]
    /\ UNCHANGED <<ast, code, line, phase, dline, dstack, dret, dstat, dres,
                   wpc, wsp, whead, wctx, wstat, wres, mli, mlhist, mlstat, mlres>>
    /\ UNCHANGED <<parseVars, mergeVars, addVars>>

MergeSpec == InitMerge /\ [][Merge]_vars

(***************************************************************************)
(* evaluator.rs: eval(inst, line, true) as a function, the steps of        *)
(* eval_depth run to completion                                            *)
(***************************************************************************)
RECURSIVE eval_depth_run(_, _, _)
eval_depth_run(inst, ln, o) ==
    IF o.stat # "run" THEN o
    ELSE eval_depth_run(inst, ln, eval_depth_step(inst, ln, o.stack, o.ret))

eval_depth(inst, ln, pc, sp) ==
    eval_depth_run(inst, ln, DOut(<<Frame(pc, sp)>>, NoRet, "run", NoRet, NoMerge))

(***************************************************************************)
(* Reference semantics.                                                    *)
(* Ends(a, ln, i): the positions j such that ln[i..j) belongs to the       *)
(* regular language of the anchor-free AST a.                              *)
(***************************************************************************)
RECURSIVE AnchorFree(_), Ends(_, _, _), EndsSeq(_, _, _), Closure(_, _, _)

AnchorFree(a) ==
    CASE a.t \in {"Char", "Period"} -> TRUE
      [] a.t \in {"Caret", "Dollar"} -> FALSE
      [] a.t = "Or" -> AnchorFree(a.l) /\ AnchorFree(a.r)
      [] a.t = "Seq" -> \A k \in DOMAIN a.v : AnchorFree(a.v[k])
      [] OTHER -> AnchorFree(a.e)

\* the least set that contains S and is closed under one more match of e
Closure(e, ln, S) ==
    LET T == S \cup UNION {Ends(e, ln, j) : j \in S}
    IN  IF T = S THEN S ELSE Closure(e, ln, T)

EndsSeq(v, ln, S) ==
    IF v = <<>> THEN S
    ELSE EndsSeq(Tail(v), ln, UNION {Ends(Head(v), ln, j) : j \in S})

Ends(a, ln, i) ==
    CASE a.t = "Char" -> IF Has(ln, i) /\ ln[i + 1] = a.c THEN {i + 1} ELSE {}
      [] a.t = "Period" -> IF Has(ln, i) THEN {i + 1} ELSE {}
      [] a.t = "Or" -> Ends(a.l, ln, i) \cup Ends(a.r, ln, i)
      [] a.t = "Seq" -> EndsSeq(a.v, ln, {i})
      [] a.t = "Question" -> {i} \cup Ends(a.e, ln, i)
      [] a.t = "Plus" -> Closure(a.e, ln, Ends(a.e, ln, i))
      [] a.t = "Star" -> Closure(a.e, ln, {i})
      [] OTHER -> {}

\* some prefix of ln belongs to the language of a
PrefixInLanguage(a, ln) == Ends(a, ln, 0) # {}

(***************************************************************************)
(* Paths of a program on a line: the threads <<pc, sp>> reachable from     *)
(* <<0, 0>>, with or without executing Head.                               *)
(***************************************************************************)
Succ(inst, ln, c, withHead) ==
    LET pc == c[1]
        sp == c[2]
    IN  IF ~Has(inst, pc) THEN {}
        ELSE LET next == inst[pc + 1] IN
          CASE next.op = "Char" ->
                 IF Has(ln, sp) /\ ln[sp + 1] = next.c THEN {<<pc + 1, sp + 1>>} ELSE {}
            [] next.op = "AnyChar" -> IF Has(ln, sp) THEN {<<pc + 1, sp + 1>>} ELSE {}
            [] next.op = "Head" -> IF withHead /\ sp = 0 THEN {<<pc + 1, sp>>} ELSE {}
            [] next.op = "Jump" -> {<<next.addr, sp>>}
            [] next.op = "Split" -> {<<next.addr1, sp>>, <<next.addr2, sp>>}
            [] OTHER -> {}

RECURSIVE Reach(_, _, _, _)
Reach(inst, ln, S, withHead) ==
    LET T == S \cup UNION {Succ(inst, ln, c, withHead) : c \in S}
    IN  IF T = S THEN S ELSE Reach(inst, ln, T, withHead)

Accepting(inst, ln, c) ==
    /\ Has(inst, c[1])
    /\ \/ inst[c[1] + 1].op = "Match"
       \/ inst[c[1] + 1].op = "MatchEnd" /\ ~Has(ln, c[2])

\* some accepting path exists
Accepts(inst, ln) ==
    \E c \in Reach(inst, ln, {<<0, 0>>}, TRUE) : Accepting(inst, ln, c)
\* some accepting path executes no Head
AcceptsWithoutHead(inst, ln) ==
    \E c \in Reach(inst, ln, {<<0, 0>>}, FALSE) : Accepting(inst, ln, c)

HasOp(inst, op) == \E k \in DOMAIN inst : inst[k].op = op

DepthDone == phase \notin {"depth", "parse", "do_matching"} /\ dstat # "idle"
WidthDone == phase \in {"match_line", "done"} /\ wstat # "idle"

(***************************************************************************)
(* Model sanity: an abort of eval_depth is a divergence.  The abort is     *)
(* raised by a Split whose own activation chain already holds an           *)
(* activation stopped at the same Split with the same sp, so the call      *)
(* repeats forever; and eval_width runs out of memory only where           *)
(* eval_depth diverges.                                                    *)
(***************************************************************************)
AbortIsDivergence ==
    /\ ((phase = "width" /\ dstat = "abort") \/ mlstat = "abort") =>
          \E j, k \in DOMAIN dstack :
             j < k /\ dstack[j].pc = dstack[k].pc /\ dstack[j].sp = dstack[k].sp
    /\ (WidthDone /\ wstat = "abort") => dstat = "abort"

(***************************************************************************)
(* C1: for every AST, code generation and evaluation of the code on any    *)
(* line terminate with a result or a typed error, in eval_depth and in     *)
(* eval_width; no evaluation recurses or grows its continuation stack      *)
(* without end.                                                            *)
(***************************************************************************)
C1_EvalTerminates ==
    /\ DepthDone => dstat \in {"ok", "err"}
    /\ WidthDone => wstat \in {"ok", "err"}

(***************************************************************************)
(* C2: for an anchor-free AST, eval from offset 0 reports matched exactly  *)
(* when some prefix of the line belongs to the language of the AST, in     *)
(* both strategies.                                                        *)
(***************************************************************************)
C2_EvalDecidesLanguage ==
    AnchorFree(ast) =>
      /\ DepthDone => ((dstat = "ok" /\ dres.matched) <=> PrefixInLanguage(ast, line))
      /\ WidthDone => ((wstat = "ok" /\ wres.matched) <=> PrefixInLanguage(ast, line))

\* the same, for the evaluations that return
C2_PartialCorrectness ==
    AnchorFree(ast) =>
      /\ (DepthDone /\ dstat = "ok") => (dres.matched <=> PrefixInLanguage(ast, line))
      /\ (WidthDone /\ wstat = "ok") => (wres.matched <=> PrefixInLanguage(ast, line))

(***************************************************************************)
(* C3: when eval_depth and eval_width both return on the same code and     *)
(* line, they return the same matched verdict.                             *)
(***************************************************************************)
C3_SameVerdict ==
    (WidthDone /\ dstat = "ok" /\ wstat = "ok") => dres.matched = wres.matched

C3_Witness ==
    /\ WidthDone /\ dstat = "ok" /\ wstat = "ok"
    /\ dres.matched /\ wres.matched
    /\ HasOp(code.insts, "Split") /\ HasOp(code.insts, "Head")
    /\ Len(line) = MaxLen

(***************************************************************************)
(* C4: eval with is_depth = true and with is_depth = false return the same *)
(* EvalResult (matched and should_be_head) on the same code and line.      *)
(***************************************************************************)
C4_SameEvalResult ==
    (WidthDone /\ dstat = "ok" /\ wstat = "ok") => dres = wres

(***************************************************************************)
(* C5: eval_depth returns matched with should_be_head = false only if some *)
(* accepting path executes no Head, and returns should_be_head = true when *)
(* every accepting path executes Head.                                     *)
(***************************************************************************)
C5_DepthCarriesHead ==
    (DepthDone /\ dstat = "ok") =>
      /\ (dres.matched /\ ~dres.should_be_head) => AcceptsWithoutHead(code.insts, line)
      /\ (Accepts(code.insts, line) /\ ~AcceptsWithoutHead(code.insts, line))
            => dres = matched_if_head

(***************************************************************************)
(* C6: for a pattern ^r (one or more leading Caret, then an anchor-free    *)
(* body r), match_line returns true only if r matches at offset 0 of the   *)
(* line.                                                                   *)
(***************************************************************************)
RECURSIVE StripCarets(_)
StripCarets(v) ==
    IF v # <<>> /\ Head(v) = Caret THEN StripCarets(Tail(v)) ELSE v

Anchored(a) ==
    /\ a.t = "Seq" /\ a.v # <<>> /\ a.v[1] = Caret
    /\ AnchorFree(Seq1(StripCarets(a.v)))

GoodOffset(i) ==
    LET r == eval_depth(code.insts, SubSeq(line, i + 1, Len(line)), 0, 0)
    IN  r.stat = "ok" /\ r.res.matched /\ (~r.res.should_be_head \/ i = 0)

C7_PartialCorrectness ==
    (phase = "done" /\ mlstat = "ok") =>
      /\ mlres <=> (\E i \in 0..(Len(line) - 1) : GoodOffset(i))
      /\ mlres => (GoodOffset(mli) /\ \A j \in 0..(mli - 1) : ~GoodOffset(j))

(***************************************************************************)
(* C8: merge(x, y) is matched iff x or y is; it equals the matched operand *)
(* when exactly one is matched; when both are matched it requires the head *)
(* only if both do; merge is commutative and associative on unmatched,     *)
(* matched and matched_if_head.                                            *)
(***************************************************************************)
MergeLaw(x, y, z) ==
    /\ z.matched <=> (x.matched \/ y.matched)
    /\ (x.matched /\ ~y.matched) => z = x
    /\ (y.matched /\ ~x.matched) => z = y
    /\ (x.matched /\ y.matched) =>
          (z.should_be_head <=> (x.should_be_head /\ y.should_be_head))

C8_MergeAlgebra ==
    /\ lastMerge # NoMerge =>
          /\ MergeLaw(lastMerge.self, lastMerge.other, lastMerge.result)
          /\ lastMerge.result \in Results
          /\ lastMerge.result = merge(lastMerge.other, lastMerge.self)
    /\ merge(mx, my) = merge(my, mx)
    /\ merge(merge(mx, my), mz) = merge(mx, merge(my, mz))

C8_Witness ==
    /\ phase = "merge"
    /\ lastMerge # NoMerge
    /\ lastMerge.self = matched_if_head
    /\ lastMerge.other = matched
    /\ lastMerge.result = matched
    /\ {mx, my, mz} = Results

(***************************************************************************)
(* C9: in the code returned by get_code every Jump target and both Split   *)
(* targets are smaller than the length of the code, the last instruction   *)
(* is Match and Match occurs nowhere else.                                 *)
(***************************************************************************)
WellFormed(inst) ==
    /\ inst # <<>>
    /\ \A k \in DOMAIN inst :
          /\ inst[k].op = "Jump" => inst[k].addr \in 0..(Len(inst) - 1)
          /\ inst[k].op = "Split" => /\ inst[k].addr1 \in 0..(Len(inst) - 1)
                                     /\ inst[k].addr2 \in 0..(Len(inst) - 1)
          /\ (inst[k].op = "Match") <=> (k = Len(inst))

C9_CodeWellFormed ==
    (ast # NoAST /\ code.err = "none") => WellFormed(code.insts)

C9_Witness ==
    /\ code.err = "none"
    /\ HasOp(code.insts, "Jump")
    /\ \E k \in DOMAIN code.insts :
          /\ code.insts[k].op = "Split"
          /\ code.insts[k].addr1 < k - 1
          /\ code.insts[k].addr2 = Len(code.insts) - 1

(***************************************************************************)
(* C10: a pattern that starts with a quantifier (+b, *b, ?b) and the       *)
(* pattern |b are rejected by parse, so do_matching returns an error.      *)
(***************************************************************************)
C10_LeadingOperatorRejected ==
    (phase = "done" /\ pexpr # <<>>
       /\ (pexpr[1] \in {"+", "*", "?"} \/ pexpr = <<"|", "b">>))
        => pstat = "err"

(***************************************************************************)
(* The layout of generated code, stated on the AST.                        *)
(* Collapse(a): the Star that Star(Star(x)) and Star(Seq[Star(x)]) stand   *)
(* for, at any nesting of the two shapes.                                  *)
(***************************************************************************)
RECURSIVE Collapse(_)
Collapse(a) ==
    IF a.t # "Star" THEN a
    ELSE IF a.e.t = "Star" THEN Collapse(a.e)
    ELSE IF a.e.t = "Seq" /\ Len(a.e.v) = 1 /\ a.e.v[1].t = "Star"
         THEN Collapse(a.e.v[1])
    ELSE a

Nested(a) == a.t = "Star" /\ Collapse(a) # a

\* the AST with the nested stars at its top or among the elements of its
\* top sequence collapsed
NormalForm(a) ==
    IF a.t = "Seq" THEN Seq1([k \in DOMAIN a.v |-> Collapse(a.v[k])])
    ELSE Collapse(a)

\* the code of the expression a alone, generated at address 0
CodeOf(a) == gen_expr(Generator, a).insts

\* the instructions moved by d addresses
Relocate(inst, d) ==
    [k \in DOMAIN inst |->
        CASE inst[k].op = "Jump" -> IJump(inst[k].addr + d)
          [] inst[k].op = "Split" -> ISplit(inst[k].addr1 + d, inst[k].addr2 + d)
          [] OTHER -> inst[k]]

(***************************************************************************)
(* C11: for Star(Star(x)) and Star(Seq[Star(x)]), nested to any depth, the *)
(* generator emits the code of the one Star(x) they collapse to: one       *)
(* Split, the code of x, one Jump.  The code of an AST with such a star at *)
(* its top or in its top sequence is the code of the AST with the star     *)
(* collapsed, so both accept the same lines.                               *)
(***************************************************************************)
C11_NestedStarCollapsed ==
    (ast # NoAST /\ code.err = "none") =>
      /\ code = get_code(NormalForm(ast))
      /\ Nested(ast) =>
            LET x == Collapse(ast).e
                n == Len(CodeOf(x))
            IN  code.insts = <<ISplit(1, n + 2)>> \o Relocate(CodeOf(x), 1)
                                 \o <<IJump(0), IMatch>>

C11_Witness ==
    /\ phase = "done"
    /\ ast = Star(Seq1(<<Star(Seq1(<<Star(Char("a"))>>))>>))
    /\ code.insts = <<ISplit(1, 3), IChar("a"), IJump(0), IMatch>>
    /\ line = <<"a", "a">>
    /\ dstat = "ok" /\ dres = matched /\ wres = matched

(***************************************************************************)
(* C12: MatchEnd consumes no input.  With sp at the end of the line the    *)
(* thread ends as a match at once, with the requiresHead flag it holds,    *)
(* and the instruction after MatchEnd is not executed; with input left the *)
(* thread fails (unmatched, or the latest continuation is resumed).  The   *)
(* code of a$ matches the line a and no other line, in both strategies.    *)
(***************************************************************************)
DepthAtMatchEnd ==
    /\ phase = "depth" /\ dstat = "run" /\ dret = NoRet /\ dstack # <<>>
    /\ Has(code.insts, dstack[Len(dstack)].pc)
    /\ code.insts[dstack[Len(dstack)].pc + 1].op = "MatchEnd"

WidthAtMatchEnd ==
    /\ phase = "width" /\ wstat = "run"
    /\ Has(code.insts, wpc)
    /\ code.insts[wpc + 1].op = "MatchEnd"

MatchEndStep ==
    /\ DepthAtMatchEnd =>
         LET n == Len(dstack)
             f == dstack[n]
             v == IF Has(dline, f.sp) THEN unmatched
                  ELSE EvalResult(TRUE, f.should_be_head)
         IN  /\ dstack' = SubSeq(dstack, 1, n - 1)
             /\ IF n = 1 THEN dstat' = "ok" /\ dres' = v
                ELSE dstat' = "run" /\ dret' = v
    /\ WidthAtMatchEnd =>
         IF ~Has(line, wsp)
         THEN /\ wstat' = "ok" /\ wres' = EvalResult(TRUE, whead)
              /\ wpc' = wpc /\ wsp' = wsp
         ELSE IF wctx = <<>>
         THEN wstat' = "ok" /\ wres' = unmatched
         ELSE LET c == wctx[Len(wctx)]
              IN  /\ wstat' = "run"
                  /\ wpc' = c.pc /\ wsp' = c.sp /\ whead' = c.should_be_head
                  /\ wctx' = SubSeq(wctx, 1, Len(wctx) - 1)

DollarAfterA ==
    ast = Seq1(<<Char("a"), Dollar>>) =>
      /\ DepthDone => dstat = "ok" /\ (dres.matched <=> line = <<"a">>)
      /\ WidthDone => wstat = "ok" /\ (wres.matched <=> line = <<"a">>)

C12_MatchEndConsumesNothing == []DollarAfterA /\ [][MatchEndStep]_vars

C12_Witness ==
    /\ phase = "done"
    /\ code.insts = <<IHead, IMatchEnd, IMatch>>
    /\ line = <<>>
    /\ dres = matched_if_head /\ wres = matched_if_head
    /\ wpc = 1 /\ wsp = 0

(***************************************************************************)
(* Patterns made of literals and '|' only, with no empty branch            *)
(***************************************************************************)
PlainAlternation(p) ==
    /\ p # <<>>
    /\ \A k \in DOMAIN p : p[k] \in Alphabet \cup {"|"}
    /\ \E k \in DOMAIN p : p[k] = "|"
    /\ p[1] # "|" /\ p[Len(p)] # "|"
    /\ \A k \in 1..(Len(p) - 1) : ~(p[k] = "|" /\ p[k + 1] = "|")

\* the branches of p between the '|', each the Seq of its literals
RECURSIVE Branches(_, _)
Branches(p, cur) ==
    IF p = <<>> THEN <<Seq1(cur)>>
    ELSE IF Head(p) = "|" THEN <<Seq1(cur)>> \o Branches(Tail(p), <<>>)
    ELSE Branches(Tail(p), Append(cur, Char(Head(p))))

\* [b1, b2, b3] as Or(b1, Or(b2, b3))
RECURSIVE RightNested(_)
RightNested(bs) ==
    IF Len(bs) = 1 THEN bs[1] ELSE Or(Head(bs), RightNested(Tail(bs)))

(***************************************************************************)
(* C13: '|' closes the current sequence as one branch, and the N branches  *)
(* of a group or of the whole pattern fold into N-1 right-nested Or nodes  *)
(* in source order.  ab|ba parses to Or(Seq[a,b], Seq[b,a]) and compiles   *)
(* to Split(1,4), a, b, Jump(6), b, a, Match.                              *)
(***************************************************************************)
C13_AlternationFolds ==
    (phase \in {"do_matching", "done"} /\ PlainAlternation(pexpr)) =>
      /\ pstat = "ok"
      /\ pres = RightNested(Branches(pexpr, <<>>))
      /\ pexpr = <<"a", "b", "|", "b", "a">> =>
           code.insts = <<ISplit(1, 4), IChar("a"), IChar("b"), IJump(6),
                          IChar("b"), IChar("a"), IMatch>>

(***************************************************************************)
(* The places of the sub-expressions in the code of an AST.  CodeLen(a) is *)
(* the number of instructions of a; Sites(a, S) holds <<n, A>> for every   *)
(* node n of a (a nested star stands for the star it collapses to) whose   *)
(* code starts at address A when the code of a starts at S.                *)
(***************************************************************************)
RECURSIVE CodeLen(_), SeqLen(_), Sites(_, _), SeqSites(_, _)
CodeLen(a) ==
    CASE a.t = "Or"       -> CodeLen(a.l) + CodeLen(a.r) + 2
      [] a.t = "Plus"     -> CodeLen(a.e) + 1
      [] a.t = "Question" -> CodeLen(a.e) + 1
      [] a.t = "Star"     -> CodeLen(Collapse(a).e) + 2
      [] a.t = "Seq"      -> SeqLen(a.v)
      [] OTHER            -> 1

SeqLen(v) == IF v = <<>> THEN 0 ELSE CodeLen(Head(v)) + SeqLen(Tail(v))

Sites(a, S) ==
    LET n == Collapse(a)
    IN  {<<n, S>>} \cup
        CASE n.t = "Or"       -> Sites(n.l, S + 1) \cup Sites(n.r, S + 2 + CodeLen(n.l))
          [] n.t = "Plus"     -> Sites(n.e, S)
          [] n.t = "Question" -> Sites(n.e, S + 1)
          [] n.t = "Star"     -> Sites(n.e, S + 1)
          [] n.t = "Seq"      -> SeqSites(n.v, S)
          [] OTHER            -> {}

SeqSites(v, S) ==
    IF v = <<>> THEN {}
    ELSE Sites(Head(v), S) \cup SeqSites(Tail(v), S + CodeLen(Head(v)))

SitesOf(kind) == {s \in Sites(ast, 0) : s[1].t = kind}

\* the n instructions of the program from address S on
Region(S, n) == SubSeq(code.insts, S + 1, S + n)

\* the instruction of the program at address A
At(A) == code.insts[A + 1]

(***************************************************************************)
(* codegen.rs: get_code applied to an AST, the enumerated ASTs going one   *)
(* node beyond those that are evaluated                                    *)
(***************************************************************************)
GenASTs == ASTs \cup ASTsOfSize(MaxSize + 1)

InitGen ==
    /\ ast \in GenASTs
    /\ line = <<>> /\ code = [err |-> "none", insts |-> <<>>]
    /\ phase = "gen"
    /\ EvalIdle
    /\ ParseIdle
    /\ MergeIdle
    /\ AddIdle

GetCode ==
    /\ phase = "gen"
    /\ code' = get_code(ast)
    /\ phase' = "gen_done"
    /\ UNCHANGED <<ast, line, dline, dstack, dret, dstat, dres, lastMerge,
                   wpc, wsp, whead, wctx, wstat, wres, mli, mlhist, mlstat, mlres>>
    /\ UNCHANGED <<parseVars, mergeVars, addVars>>

CodegenSpec == InitGen /\ [][GetCode]_vars

Compiled == phase = "gen_done" /\ code.err = "none"

(***************************************************************************)
(* C14: Or(e1, e2) whose code starts at S is Split(S+1, J+1) at S, the     *)
(* code of e1 from S+1, Jump(E) at J right after the code of e1, the code  *)
(* of e2 from J+1, with E the address right after the code of e2; for      *)
(* every alternation of the AST, the nested ones included.                 *)
(***************************************************************************)
C14_OrLayout ==
    Compiled =>
      \A s \in SitesOf("Or") :
        LET S == s[2]
            J == S + 1 + CodeLen(s[1].l)
            E == J + 1 + CodeLen(s[1].r)
        IN  /\ E < Len(code.insts)
            /\ At(S) = ISplit(S + 1, J + 1)
            /\ Region(S + 1, J - S - 1) = Relocate(CodeOf(s[1].l), S + 1)
            /\ At(J) = IJump(E)
            /\ Region(J + 1, E - J - 1) = Relocate(CodeOf(s[1].r), J + 1)

C14_Witness ==
    /\ Compiled
    /\ \E s, u \in SitesOf("Or") : s[2] = 0 /\ u[2] > 0 /\ u[1] = s[1].r
    /\ code.insts = <<ISplit(1, 3), IChar("a"), IJump(8),
                      ISplit(4, 6), IChar("b"), IJump(8),
                      IChar("a"), IChar("b"), IMatch>>

(***************************************************************************)
(* C15: Star(e) whose code starts at L1, e being the body left after the   *)
(* nested stars are collapsed, is Split(L1+1, X) at L1, the code of e,     *)
(* Jump(L1), with X the address right after that Jump.  No Split of a      *)
(* finished program keeps the placeholder 0 as its second operand.         *)
(***************************************************************************)
C15_StarLayout ==
    Compiled =>
      /\ \A s \in SitesOf("Star") :
           LET L1 == s[2]
               X  == L1 + CodeLen(s[1].e) + 2
           IN  /\ X < Len(code.insts)
               /\ At(L1) = ISplit(L1 + 1, X)
               /\ Region(L1 + 1, X - L1 - 2) = Relocate(CodeOf(s[1].e), L1 + 1)
               /\ At(X - 1) = IJump(L1)
      /\ \A k \in DOMAIN code.insts :
           code.insts[k].op = "Split" => code.insts[k].addr2 # 0

C15_Witness ==
    /\ Compiled
    /\ ast = Seq1(<<Char("a"),
                    Star(Or(Seq1(<<Char("b"), Char("a")>>), Seq1(<<Plus(Char("b"))>>)))>>)
    /\ <<ast.v[2], 1>> \in SitesOf("Star")
    /\ At(1) = ISplit(2, 9) /\ At(8) = IJump(1) /\ At(9) = IMatch

JumpCount(inst) == Cardinality({k \in DOMAIN inst : inst[k].op = "Jump"})

(***************************************************************************)
(* C16: Plus(e) whose code starts at L1 is the code of e followed by       *)
(* Split(L1, N), N the address right after that Split.  Question(e) whose  *)
(* code starts at S is Split(S+1, X) followed by the code of e, X the      *)
(* address right after it.  Neither construct adds a Jump.                 *)
(***************************************************************************)
C16_PlusQuestionLayout ==
    Compiled =>
      /\ \A s \in SitesOf("Plus") :
           LET L1 == s[2]
               N  == L1 + CodeLen(s[1].e) + 1
           IN  /\ N < Len(code.insts)
               /\ Region(L1, N - L1 - 1) = Relocate(CodeOf(s[1].e), L1)
               /\ At(N - 1) = ISplit(L1, N)
               /\ CodeOf(s[1]) = Append(CodeOf(s[1].e), ISplit(0, N - L1))
      /\ \A s \in SitesOf("Question") :
           LET S == s[2]
               X == S + 1 + CodeLen(s[1].e)
           IN  /\ X < Len(code.insts)
               /\ At(S) = ISplit(S + 1, X)
               /\ Region(S + 1, X - S - 1) = Relocate(CodeOf(s[1].e), S + 1)
               /\ CodeOf(s[1]) = <<ISplit(1, X - S)>> \o Relocate(CodeOf(s[1].e), 1)
      /\ (SitesOf("Or") = {} /\ SitesOf("Star") = {}) => JumpCount(code.insts) = 0

C16_Witness ==
    /\ Compiled
    /\ ast = Question(Plus(Char("b")))
    /\ code.insts = <<ISplit(1, 3), IChar("b"), ISplit(1, 3), IMatch>>
    /\ SitesOf("Plus") = {<<Plus(Char("b")), 1>>}
    /\ SitesOf("Question") = {<<ast, 0>>}

(***************************************************************************)
(* C17: get_code returns neither FailStar nor FailOr nor FailQuestion, for *)
(* any AST: the address each construct patches holds the Split or the Jump *)
(* the construct itself emitted.                                           *)
(***************************************************************************)
C17_NoPatchFailure ==
    phase = "gen_done" => code.err \notin {"FailStar", "FailOr", "FailQuestion"}

C17_Witness ==
    /\ Compiled
    /\ SitesOf("Or") # {} /\ SitesOf("Star") # {} /\ SitesOf("Question") # {}

(***************************************************************************)
(* evaluator.rs: eval on programs that get_code did not build, as          *)
(* test_eval calls it: every instruction sequence of up to MaxProg         *)
(* instructions, with targets inside the program and one past its end      *)
(***************************************************************************)
ProgInsts ==
    {IChar("a"), IHead, IMatchEnd, IMatch}
      \cup {IJump(t) : t \in 0..MaxProg}
      \cup {ISplit(t, u) : t, u \in 0..MaxProg}

Programs == UNION {[1..n -> ProgInsts] : n \in 1..MaxProg}

ProgLines == UNION {[1..n -> Alphabet] : n \in 0..MaxProgLine}

InitProg ==
    /\ ast = NoAST
    /\ line \in ProgLines
    /\ \E p \in Programs : code = [err |-> "none", insts |-> p]
    /\ phase = "depth"
    /\ dline = line /\ dstack = <<Frame(0, 0)>> /\ dret = NoRet /\ dstat = "run"
    /\ dres = NoRet /\ lastMerge = NoMerge
    /\ wpc = 0 /\ wsp = 0 /\ whead = FALSE /\ wctx = <<>>
    /\ wstat = "run" /\ wres = NoRet
    /\ mli = 0 /\ mlhist = <<>> /\ mlstat = "idle" /\ mlres = FALSE
    /\ ParseIdle
    /\ MergeIdle
    /\ AddIdle

NextProg == EvalDepth \/ EvalWidth

ProgSpec == InitProg /\ [][NextProg]_vars

(***************************************************************************)
(* C18: on a program built by get_code neither evaluator returns           *)
(* InvalidPC, for any line: the pc of every activation of eval_depth, the  *)
(* pc of eval_width and the pc of every saved continuation address an      *)
(* instruction of the program.                                             *)
(***************************************************************************)
C18_NoInvalidPC ==
    /\ dstat = "err" => dres # "InvalidPC"
    /\ wstat = "err" => wres # "InvalidPC"
    /\ mlstat # "err"
    /\ \A k \in DOMAIN dstack : Has(code.insts, dstack[k].pc)
    /\ Has(code.insts, wpc)
    /\ \A k \in DOMAIN wctx : Has(code.insts, wctx[k].pc)

C18_Witness ==
    /\ phase = "done"
    /\ dstat = "ok" /\ wstat = "ok" /\ mlstat = "ok"
    /\ HasOp(code.insts, "Split") /\ HasOp(code.insts, "Jump")
    /\ wpc = Len(code.insts) - 1
    /\ wsp = Len(line) /\ Len(line) >= 2

(***************************************************************************)
(* C19: eval_width never returns InvalidContext, for any program and any   *)
(* line.  A thread that fails with an empty stack ends the evaluation as   *)
(* unmatched; with a non-empty stack the latest continuation is popped and *)
(* resumed.                                                                *)
(***************************************************************************)
WidthFails ==
    /\ phase = "width" /\ wstat = "run"
    /\ Has(code.insts, wpc)
    /\ LET next == code.insts[wpc + 1]
       IN  \/ next.op = "Char" /\ ~Has(line, wsp)
           \/ next.op = "Char" /\ Has(line, wsp) /\ line[wsp + 1] # next.c
           \/ next.op = "AnyChar" /\ ~Has(line, wsp)
           \/ next.op = "Head" /\ wsp # 0
           \/ next.op = "MatchEnd" /\ Has(line, wsp)

LocalFailureStep ==
    WidthFails =>
      IF wctx = <<>>
      THEN wstat' = "ok" /\ wres' = unmatched
      ELSE LET c == wctx[Len(wctx)]
           IN  /\ wstat' = "run"
               /\ wpc' = c.pc /\ wsp' = c.sp /\ whead' = c.should_be_head
               /\ wctx' = SubSeq(wctx, 1, Len(wctx) - 1)

NoInvalidContext == wstat = "err" => wres # "InvalidContext"

C19_NoInvalidContext == []NoInvalidContext /\ [][LocalFailureStep]_vars

C19_Witness ==
    /\ code.insts = <<ISplit(1, 1), IChar("a")>>
    /\ line = <<"b">>
    /\ wstat = "ok" /\ wres = unmatched
    /\ wpc = 1 /\ wctx = <<>>

(***************************************************************************)
(* C20: a quantifier at position pos replaces the last node of the current *)
(* sequence by Plus, Star or Question of that node, the length of the      *)
(* sequence unchanged, and fails with NoPrev(pos) when the current         *)
(* sequence is empty, as it is directly after '(' and directly after '|'.  *)
(***************************************************************************)
AtQuantifier ==
    /\ phase = "parse" /\ pstat = "run" /\ pstate = "Char"
    /\ ppos <= Len(pexpr)
    /\ pexpr[ppos] \in {"+", "*", "?"}

AfterOpener ==
    /\ ppos > 1
    /\ pexpr[ppos - 1] \in {"(", "|"}
    /\ ~(ppos > 2 /\ pexpr[ppos - 2] = "\\")

Wrapped(c, e) ==
    CASE c = "+" -> Plus(e) [] c = "*" -> Star(e) [] c = "?" -> Question(e)

QuantifierStep ==
    AtQuantifier =>
      IF pseq = <<>> \/ AfterOpener
      THEN pstat' = "err" /\ pres' = <<"NoPrev", ppos - 1>>
      ELSE /\ pstat' = "run"
           /\ pseq' = [pseq EXCEPT ![Len(pseq)] = Wrapped(pexpr[ppos], @)]

C20_QuantifierWrapsLast == [][QuantifierStep]_vars

(***************************************************************************)
(* C21: a backslash starts an escape that consumes exactly the next        *)
(* character.  One of \ ( ) | + * ? is appended as a literal Char and      *)
(* parsing goes on in the normal state; any other character fails with     *)
(* InvalidEscape(pos, char).  An escaped metacharacter never acts as an    *)
(* operator.                                                               *)
(***************************************************************************)
RECURSIVE Escaped(_)
\* the character at index k of pexpr follows a backslash that is not
\* itself escaped
Escaped(k) == k > 1 /\ pexpr[k - 1] = "\\" /\ ~Escaped(k - 1)

AtEscaped ==
    /\ phase = "parse" /\ pstat = "run"
    /\ ppos <= Len(pexpr)
    /\ Escaped(ppos)

EscapeStep ==
    AtEscaped =>
      LET r == parse_escape(ppos - 1, pexpr[ppos])
      IN  IF r.ok
          THEN /\ pstat' = "run" /\ pstate' = "Char"
               /\ pseq' = Append(pseq, r.ast)
               /\ pseq_or' = pseq_or /\ pstack' = pstack
          ELSE pstat' = "err" /\ pres' = r.err

C21_EscapeTakesNextChar == [][EscapeStep]_vars

(***************************************************************************)
(* C22: '(' saves the current sequence and branch list and starts empty    *)
(* ones; ')' restores the saved pair and appends the folded group to the   *)
(* restored sequence.  A ')' at pos with no open group fails with          *)
(* InvalidRightParen(pos), the end of the pattern with a group open fails  *)
(* with NoRightParen, and a pattern that produces no node (the empty       *)
(* pattern, "()") fails with Empty.                                        *)
(***************************************************************************)
\* the branches of the group or pattern that ends here
OpenBranches == IF pseq # <<>> THEN Append(pseq_or, Seq1(pseq)) ELSE pseq_or

Parsing == phase = "parse" /\ pstat = "run"

GroupStep ==
    /\ (Parsing /\ ppos <= Len(pexpr) /\ ~Escaped(ppos) /\ pexpr[ppos] = "(") =>
         /\ pstat' = "run"
         /\ pstack' = Append(pstack, <<pseq, pseq_or>>)
         /\ pseq' = <<>> /\ pseq_or' = <<>>
    /\ (Parsing /\ ppos <= Len(pexpr) /\ ~Escaped(ppos) /\ pexpr[ppos] = ")") =>
         IF pstack = <<>>
         THEN pstat' = "err" /\ pres' = <<"InvalidRightParen", ppos - 1>>
         ELSE LET top == pstack[Len(pstack)]
              IN  /\ pstat' = "run"
                  /\ pstack' = SubSeq(pstack, 1, Len(pstack) - 1)
                  /\ pseq_or' = top[2]
                  /\ pseq' = IF OpenBranches = <<>> THEN top[1]
                             ELSE Append(top[1], RightNested(OpenBranches))
    /\ (Parsing /\ ppos > Len(pexpr)) =>
         IF pstack # <<>> THEN pstat' = "err" /\ pres' = <<"NoRightParen">>
         ELSE IF OpenBranches = <<>> THEN pstat' = "err" /\ pres' = <<"Empty">>
         ELSE pstat' = "ok" /\ pres' = RightNested(OpenBranches)

NoNodeIsEmpty ==
    (phase = "done" /\ pexpr \in {<<>>, <<"(", ")">>, <<"(", "(", ")", ")">>}) =>
       pstat = "err" /\ pres = <<"Empty">>

C22_GroupBookkeeping == []NoNodeIsEmpty /\ [][GroupStep]_vars

C22_Witness ==
    /\ phase = "done" /\ pstat = "ok"
    /\ pexpr = <<"(", "a", "b", ")", "*">>
    /\ pres = Seq1(<<Star(Seq1(<<Char("a"), Char("b")>>))>>)
    /\ pstack = <<>>

(***************************************************************************)
(* helper.rs: safe_add(&mut dst, &src, f) called again and again on one    *)
(* counter, as inc_pc and the evaluators do and as test_safe_add does with *)
(* 10 + 20 and with the largest usize                                      *)
(***************************************************************************)
AddSrcs == {0, 1, 2, 20}

InitAdd ==
    /\ sdst \in {0, 10} \cup {UsizeMax - k : k \in 0..3}
    /\ ssrc = 0 /\ sres = "none"
    /\ ast = NoAST /\ line = <<>> /\ code = [err |-> "none", insts |-> <<>>]
    /\ phase = "safe_add"
    /\ EvalIdle
    /\ ParseIdle
    /\ MergeIdle

SafeAddCall ==
    /\ phase = "safe_add"
    /\ sdst < MaxAddDst \/ sdst > UsizeMax - MaxAddDst
    /\ \E src \in AddSrcs :
          LET r == SafeAdd(sdst, src)
          IN  /\ sdst' = r.v
              /\ ssrc' = src
              /\ sres' = IF r.ok THEN "Ok" ELSE "Err"
    /\ UNCHANGED <<evalVars, parseVars, mergeVars>>

SafeAddSpec == InitAdd /\ [][SafeAddCall]_vars

(***************************************************************************)
(* C23: when dst + src would exceed the largest value of the machine word  *)
(* safe_add returns the error and leaves dst unchanged; otherwise dst      *)
(* becomes dst + src and the result is Ok.  The counter never wraps        *)
(* around: it never decreases.                                             *)
(***************************************************************************)
SafeAddStep ==
    phase = "safe_add" =>
      /\ IF ssrc' > UsizeMax - sdst
         THEN sres' = "Err" /\ sdst' = sdst
         ELSE sres' = "Ok" /\ sdst' = sdst + ssrc'
      /\ sdst' >= sdst /\ sdst' <= UsizeMax

C23_SafeAddNeverWraps == [][SafeAddStep]_vars

C23_Witness ==
    /\ phase = "safe_add"
    /\ sdst = UsizeMax /\ ssrc = 1 /\ sres = "Err"

(***************************************************************************)
(* C24: Head consumes no input.  Executed with sp = 0 it advances pc by    *)
(* one and sets the requiresHead flag of the thread; executed with sp > 0  *)
(* it fails the thread.  A start anchor after an element that consumed     *)
(* input (a^a, x(a|^b)) therefore lies on no accepting path.               *)
(***************************************************************************)
DepthAtHead ==
    /\ phase = "depth" /\ dstat = "run" /\ dret = NoRet /\ dstack # <<>>
    /\ Has(code.insts, dstack[Len(dstack)].pc)
    /\ code.insts[dstack[Len(dstack)].pc + 1].op = "Head"

WidthAtHead ==
    /\ phase = "width" /\ wstat = "run"
    /\ Has(code.insts, wpc)
    /\ code.insts[wpc + 1].op = "Head"

HeadStep ==
    /\ DepthAtHead =>
         LET n == Len(dstack)
             f == dstack[n]
         IN  IF f.sp = 0
             THEN /\ dstat' = "run" /\ dret' = NoRet
                  /\ dstack' = [dstack EXCEPT ![n] =
                                  [f EXCEPT !.pc = f.pc + 1, !.should_be_head = TRUE]]
             ELSE /\ dstack' = SubSeq(dstack, 1, n - 1)
                  /\ IF n = 1 THEN dstat' = "ok" /\ dres' = unmatched
                     ELSE dstat' = "run" /\ dret' = unmatched
    /\ WidthAtHead =>
         IF wsp = 0
         THEN /\ wstat' = "run"
              /\ wpc' = wpc + 1 /\ wsp' = 0 /\ whead' = TRUE /\ wctx' = wctx
         ELSE IF wctx = <<>>
         THEN wstat' = "ok" /\ wres' = unmatched
         ELSE LET c == wctx[Len(wctx)]
              IN  /\ wstat' = "run"
                  /\ wpc' = c.pc /\ wsp' = c.sp /\ whead' = c.should_be_head
                  /\ wctx' = SubSeq(wctx, 1, Len(wctx) - 1)

\* the AST is a sequence whose first element consumes a character and
\* whose second element is the start anchor
CaretAfterInput ==
    /\ ast # NoAST /\ ast.t = "Seq" /\ Len(ast.v) >= 2
    /\ ast.v[1].t \in {"Char", "Period"}
    /\ ast.v[2] = Caret

StartsWithBA == Len(line) >= 2 /\ SubSeq(line, 1, 2) = <<"b", "a">>

AnchorAfterInput ==
    /\ CaretAfterInput =>
         /\ DepthDone => dstat = "ok" /\ dres = unmatched
         /\ WidthDone => wstat = "ok" /\ wres = unmatched
         /\ phase = "done" => mlstat = "ok" /\ ~mlres
    /\ ast = Seq1(<<Char("b"), Or(Seq1(<<Char("a")>>), Seq1(<<Caret, Char("b")>>))>>) =>
         /\ DepthDone => dstat = "ok" /\ (dres.matched <=> StartsWithBA)
         /\ WidthDone => wstat = "ok" /\ (wres.matched <=> StartsWithBA)

C24_HeadOnlyAtStart == []AnchorAfterInput /\ [][HeadStep]_vars

C24_Witness ==
    /\ phase = "done"
    /\ ast = Seq1(<<Char("b"), Or(Seq1(<<Char("a")>>), Seq1(<<Caret, Char("b")>>))>>)
    /\ line = <<"b", "b">>
    /\ dres = unmatched /\ wres = unmatched /\ ~mlres
    /\ code.insts[wpc + 1] = IHead /\ wsp = 1

(***************************************************************************)
(* The result of the first accepting path of a program in branch-priority  *)
(* order (addr1 of a Split before addr2), unmatched when no path accepts.  *)
(* Defined when that search ends.                                          *)
(***************************************************************************)
RECURSIVE FirstPath(_, _, _, _, _)
FirstPath(inst, ln, pc, sp, h) ==
    LET next == inst[pc + 1]
    IN  CASE next.op = "Char" ->
               IF Has(ln, sp) /\ ln[sp + 1] = next.c
               THEN FirstPath(inst, ln, pc + 1, sp + 1, h) ELSE unmatched
          [] next.op = "AnyChar" ->
               IF Has(ln, sp) THEN FirstPath(inst, ln, pc + 1, sp + 1, h) ELSE unmatched
          [] next.op = "Head" ->
               IF sp = 0 THEN FirstPath(inst, ln, pc + 1, sp, TRUE) ELSE unmatched
          [] next.op = "Match" -> EvalResult(TRUE, h)
          [] next.op = "MatchEnd" ->
               IF Has(ln, sp) THEN unmatched ELSE EvalResult(TRUE, h)
          [] next.op = "Jump" -> FirstPath(inst, ln, next.addr, sp, h)
          [] next.op = "Split" ->
               IF FirstPath(inst, ln, next.addr1, sp, h).matched
               THEN FirstPath(inst, ln, next.addr1, sp, h)
               ELSE FirstPath(inst, ln, next.addr2, sp, h)

WidthSucceeds ==
    /\ phase = "width" /\ wstat = "run"
    /\ Has(code.insts, wpc)
    /\ LET next == code.insts[wpc + 1]
       IN  \/ next.op = "Char" /\ Has(line, wsp) /\ line[wsp + 1] = next.c
           \/ next.op = "AnyChar" /\ Has(line, wsp)
           \/ next.op = "Head" /\ wsp = 0
           \/ next.op = "Jump"

WidthAtSplit ==
    /\ phase = "width" /\ wstat = "run"
    /\ Has(code.insts, wpc)
    /\ code.insts[wpc + 1].op = "Split"
    /\ Len(wctx) < MaxCtx

(***************************************************************************)
(* C25: eval_width is a last-in-first-out backtracking search.             *)
(* Split(addr1, addr2) pushes (addr2, sp, requiresHead) and goes on at     *)
(* addr1; a local failure pops the latest continuation and restores the    *)
(* pc, sp and flag saved with it; a successful Char, AnyChar, Head or Jump *)
(* leaves the stack as it is; the result returned is that of the first     *)
(* accepting path in branch-priority order, with no later path merged in.  *)
(***************************************************************************)
BacktrackStep ==
    /\ WidthAtSplit =>
         /\ wstat' = "run"
         /\ wctx' = Append(wctx, Ctx(code.insts[wpc + 1].addr2, wsp, whead))
         /\ wpc' = code.insts[wpc + 1].addr1 /\ wsp' = wsp /\ whead' = whead
    /\ (WidthFails /\ wctx # <<>>) =>
         /\ wstat' = "run"
         /\ Ctx(wpc', wsp', whead') = wctx[Len(wctx)]
         /\ wctx' = SubSeq(wctx, 1, Len(wctx) - 1)
    /\ WidthSucceeds => wstat' = "run" /\ wctx' = wctx
    /\ (phase = "width" /\ wstat = "run" /\ wstat' = "ok") =>
         wres' = FirstPath(code.insts, line, 0, 0, FALSE)

C25_WidthBacktracksLIFO == [][BacktrackStep]_vars

C25_Witness ==
    /\ phase = "done"
    /\ ast = Or(Caret, Char("a"))
    /\ line = <<"a">>
    /\ wstat = "ok" /\ wres = matched_if_head
    /\ dstat = "ok" /\ dres = matched

SplitCount(inst) == Cardinality({k \in DOMAIN inst : inst[k].op = "Split"})

(***************************************************************************)
(* C26: in eval_depth on a compiled program the number of eval_depth calls *)
(* active at the same time never exceeds the number of Split instructions  *)
(* of the program plus one, for every line.                                *)
(***************************************************************************)
C26_DepthBoundedBySplits ==
    (ast # NoAST /\ code.err = "none") =>
       Len(dstack) <= SplitCount(code.insts) + 1

(***************************************************************************)
(* C27: match_line evaluates only at offsets that start a character of the *)
(* line, never at the offset equal to the line length.  For the empty line *)
(* it evaluates nothing and returns false for every pattern, those that    *)
(* accept the empty string included.                                       *)
(***************************************************************************)
OffsetsInsideLine ==
    /\ mlstat = "eval" => (mli < Len(line) /\ dline = SubSeq(line, mli + 1, Len(line)))
    /\ Len(mlhist) <= Len(line)
    /\ (phase = "done" /\ line = <<>>) => (mlstat = "ok" /\ ~mlres /\ mlhist = <<>>)

MatchLineStep ==
    (phase = "match_line" /\ mlstat = "idle") =>
       IF mli < Len(line)
       THEN mlstat' = "eval" /\ dline' = SubSeq(line, mli + 1, Len(line))
       ELSE mlstat' = "ok" /\ mlres' = FALSE /\ mlhist' = mlhist

C27_MatchLineSkipsLineEnd == []OffsetsInsideLine /\ [][MatchLineStep]_vars

C27_Witness ==
    /\ phase = "done"
    /\ ast = Star(Char("a"))
    /\ line = <<>>
    /\ dstat = "ok" /\ dres = matched
    /\ mlstat = "ok" /\ ~mlres /\ mlhist = <<>>

(***************************************************************************)
(* C28: whenever gen_expr returns Ok, and when gen_code returns Ok, pc     *)
(* equals the number of instructions emitted so far, whether a step pushes *)
(* before or after it increments pc; so the address a construct records    *)
(* is the index of the instruction it emits there.                         *)
(***************************************************************************)
C28_PcIsInstsLen ==
    Compiled =>
      /\ LET g == gen_code(Generator, ast)
         IN  g.pc = Len(g.insts) /\ g.insts = code.insts
      /\ \A s \in Sites(ast, 0) :
           LET g0 == [pc |-> s[2], insts |-> Region(0, s[2]), err |-> "none"]
               g1 == gen_expr(g0, s[1])
           IN  /\ g1.err = "none"
               /\ g1.pc = Len(g1.insts)
               /\ g1.pc = s[2] + CodeLen(s[1])
               /\ s[1].t \in {"Or", "Star", "Question"} => g1.insts[s[2] + 1].op = "Split"

C28_Witness ==
    /\ Compiled
    /\ ast = Seq1(<<Char("a"),
                    Star(Or(Seq1(<<Char("b"), Char("a")>>), Seq1(<<Plus(Char("b"))>>)))>>)
    /\ Len(code.insts) = 10
    /\ gen_code(Generator, ast).pc = 10

====
